---- MODULE Spec2Model ----
(***************************************************************************)
(* Leonardo-Fuse along illumination (leonardo_toolset/fusion/fuse_illu.py). *)
(*                                                                         *)
(* A FUSE_illu object, the file system it writes to, and runs of           *)
(* FUSE_illu.train, FUSE_illu.train_with_boundary and of the module-level  *)
(* fusionResult, each taken through its stages in source order; calls of   *)
(* FUSE_illu.localizingSample, FUSE_illu.segmentSample and                 *)
(* FUSE_illu.train_from_params on their own.                               *)
(*                                                                         *)
(* Conventions                                                             *)
(*  - a volume is the sequence of its depth slices; a slice is an opaque   *)
(*    identifier with its orientation T (rows and columns exchanged), the  *)
(*    lateral shape being Rows x NCols for every volume;                   *)
(*  - a boundary surface is a sequence (depth) of sequences (lateral) of   *)
(*    numbers; real values are fixed-point, in units of 1/Scale;           *)
(*  - Python indices are 0-based: At(q, i) reads q[i] as numpy does;       *)
(*  - None is the empty sequence << >>;                                    *)
(*  - a path is the sequence of its components.                           *)
(*  - fusion_perslice, EM2DPlus, the NSCT transform and the YAML helpers   *)
(*    live in other files of the package: a call of one of them is         *)
(*    modelled by the arguments the call site hands over.                  *)
(***************************************************************************)
EXTENDS Integers, Sequences, FiniteSets, TLC

VARIABLES
    train_params,   \* self.train_params of the FUSE_illu object
    GFr_default,    \* the list object bound to fusionResult's default GFr
    data,           \* the illumination pair on offer to every run
    dirs,           \* directories that exist
    bfiles,         \* boundary rasters on disk
    rfiles,         \* result volumes on disk
    mfiles,         \* per-slice mask artifacts on disk
    pfiles,         \* parameter (yaml) files on disk
    limit,          \* number of runs the session makes
    run,            \* number of runs started
    trains,         \* number of runs of train started
    pc,             \* position of the current run
    args,           \* arguments of the current run
    loc,            \* locals of train / train_with_boundary
    fr,             \* locals of fusionResult
    outcome,        \* how the current run ended
    calls,          \* completed fusionResult calls, oldest first
    crop,           \* a call of localizingSample: arguments, locals, outcome
    seg,            \* a call of segmentSample: arguments, locals, outcome
    tfp             \* a call of train_from_params: params, locals, outcome

vars == <<train_params, GFr_default, data, dirs, bfiles, rfiles, mfiles,
          pfiles, limit, run, trains, pc, args, loc, fr, outcome, calls,
          crop, seg, tfp>>

objVars == <<train_params, data, limit>>
fsVars == <<dirs, bfiles, rfiles, mfiles, pfiles>>
stageVars == <<crop, seg, tfp>>
runVars == <<GFr_default, run, trains, pc, args, loc, fr, outcome, calls>>

----------------------------------------------------------------------------
(* Bounds of the model *)

MaxDepth == 3
MaxRuns == 2
MaxTrain == 1
Rows == 3
NCols == 1
Scale == 4
MaxCrop == 1
MaxWin == 5
ColExtent == 260
RowExtent == 50
MaxSegExtra == 1
MaxAmount == 3

(* Program constants *)

DefaultWinZ == 5
DefaultWinXY == 59
DefaultGFrZ == 5
DefaultGFrXY == 49
ResampleRatio == 2
SavgolWindow == 11
UInt16 == 65536
Margin == 100
Images == 2

----------------------------------------------------------------------------
(* Numbers, sequences, numpy indexing *)

Min(a, b) == IF a < b THEN a ELSE b
Max(a, b) == IF a > b THEN a ELSE b

\* np.arange(a, b) and np.arange(a, b, -1)
ARangeUp(a, b) == [i \in 1..Max(b - a, 0) |-> a + i - 1]
ARangeDown(a, b) == [i \in 1..Max(a - b, 0) |-> a - i + 1]

\* q[::-1]
Rev(q) == [i \in 1..Len(q) |-> q[Len(q) + 1 - i]]

\* an index numpy / torch accept on an axis of length n: -n <= i < n
IndexOK(i, n) == -n <= i /\ i < n

\* q[i], a negative i counted from the end
At(q, i) == IF i < 0 THEN q[Len(q) + i + 1] ELSE q[i + 1]

\* q[idx] for an index array idx
Take(q, idx) == [k \in 1..Len(idx) |-> At(q, idx[k])]

\* q[a:b] for 0 <= a <= b <= len(q)
Slice(q, a, b) == SubSeq(q, a + 1, b)

\* x // y of Python for y > 0 (floor division)
FloorDiv(x, y) == x \div y

----------------------------------------------------------------------------
(* Values *)

None == << >>

\* volume.shape[0]
Depth(vol) == Len(vol)

\* the depths on offer: the small ones, and the shortest volume the
\* Savitzky-Golay window of segmentSample fits
Depths == (1..MaxDepth) \cup {SavgolWindow}

\* a volume of s slices as the caller holds it: the slice at depth z is
\* identified by base + z; T tells whether its rows and columns are exchanged
\* with respect to the caller's array
Volume(s, base) == [z \in 1..s |-> [id |-> base + z, T |-> FALSE]]

\* the secondary depths on offer beside a primary of depth s: the same depth;
\* one slice more for the deepest small volume and for the long one; one
\* slice less for the deepest small volume
BottomDepths(s) ==
    {s} \cup (IF s >= MaxDepth THEN {s + 1} ELSE {})
        \cup (IF s = MaxDepth THEN {s - 1} ELSE {})

\* the pairs on offer; lateral tells whether the pair is handed over as
\* left_illu_data / right_illu_data rather than top_illu_data /
\* bottom_illu_data
Pairs == {[top |-> Volume(d[1], 0), bottom |-> Volume(d[2], 100),
           lateral |-> l] :
            d \in {e \in Depths \X (1..(SavgolWindow + 1)) :
                     e[2] \in BottomDepths(e[1])},
            l \in BOOLEAN}

\* vol.transpose(0, 2, 1)
Transpose(vol) == [z \in 1..Len(vol) |-> [vol[z] EXCEPT !.T = ~@]]

\* the volume as ingested: np.transpose(data, (0, 2, 1)) for a lateral pair
Ingested(T_flag, vol) == IF T_flag THEN Transpose(vol) ELSE vol

\* x[::-1, ...] when cam_pos == "back"
FlipIf(cam_pos, x) == IF cam_pos = "back" THEN Rev(x) ELSE x

\* a surface of depth s constant at v
Flat(s, v) == [z \in 1..s |-> [x \in 1..NCols |-> v]]

\* a surface of depth s rising with depth and lateral position
Ramp(s, v, dz) == [z \in 1..s |-> [x \in 1..NCols |-> v + dz * (z - 1) + (x - 1)]]

----------------------------------------------------------------------------
(* File system *)

Root == <<"save">>
Missing == <<"missing">>

\* os.path.join(base, name)
Join(base, name) == IF name = "" THEN base ELSE Append(base, name)

\* every prefix of a path: what os.makedirs(path) leaves behind
Prefixes(path) == {SubSeq(path, 1, k) : k \in 1..Len(path)}

IsUnder(path, dir) ==
    Len(path) >= Len(dir) /\ SubSeq(path, 1, Len(dir)) = dir

\* the files of a set that are not at (dir, name)
Without(files, dir, name) == {f \in files : ~(f.dir = dir /\ f.name = name)}

FileAt(files, dir, name) == {f \in files : f.dir = dir /\ f.name = name}

\* "" or "_without_segmentation"
Suffix(tp) == IF tp.require_segmentation THEN "" ELSE "_without_segmentation"

\* "fusionBoundary_xy{}.tif".format(...), kept as (stem, suffix)
fb_xy(tp) == <<"fusionBoundary_xy", Suffix(tp), ".tif">>

\* "illuFusionResult{}.tif".format(...)
illu_name(tp) == <<"illuFusionResult", Suffix(tp), ".tif">>

\* the literal "fusionBoundary_xy.tif" of train_with_boundary
fb_xy_literal == <<"fusionBoundary_xy", "", ".tif">>

\* directories holding a boundary raster of an earlier session: one of the
\* depth of the primary volume, one a row deeper
Given == <<"given">>
GivenDeep == <<"given_deep">>

\* a boundary raster of depth s as an earlier session left it
GivenRaster(s) == [z \in 1..s |-> [x \in 1..NCols |-> (z - 1) % Rows]]

topillu == IF data.lateral THEN "left_illu" ELSE "top_illu"
bottomillu == IF data.lateral THEN "right_illu" ELSE "bottom_illu"

----------------------------------------------------------------------------
(* fusionResult: pure parts *)

\* GFr[1] // 4 * 2 + 1
ReducedXY(g) == FloorDiv(g, 4) * 2 + 1

\* l_temp: the depth indices 0..s-1 padded at both ends
LTemp(s, w) ==
    ARangeDown(FloorDiv(w, 2), 0) \o ARangeUp(0, s)
        \o ARangeDown(s - FloorDiv(w, 2), s - w + 1)

\* range(GFr[0] // 2, len(l_temp) - GFr[0] // 2) still has ii in it
InLoop(f) == f.ii < Len(f.l_temp) - FloorDiv(f.GFr[1], 2)

\* l_s = l_temp[ii - GFr[0] // 2 : ii + GFr[0] // 2 + 1]
LS(f) == Slice(f.l_temp, f.ii - FloorDiv(f.GFr[1], 2),
               f.ii + FloorDiv(f.GFr[1], 2) + 1)

\* ind = ii - GFr[0] // 2
Ind(f) == f.ii - FloorDiv(f.GFr[1], 2)

\* (mask <= boundary_slice) for one depth of the window: per lateral
\* position, the rows 0..m-1 selected for the primary volume
TopMaskRow(brow) == [x \in 1..Len(brow) |-> {r \in 0..(Rows - 1) : r <= brow[x]}]

\* the secondary selection, were line 1123 (mask >= boundary_slice)
BottomMaskRowInclusive(brow) ==
    [x \in 1..Len(brow) |-> {r \in 0..(Rows - 1) : r >= brow[x]}]

\* (mask > boundary_slice)
BottomMaskRow(brow) == [x \in 1..Len(brow) |-> {r \in 0..(Rows - 1) : r > brow[x]}]

topMask(boundary, ls) ==
    [k \in 1..Len(ls) |-> TopMaskRow(At(boundary, ls[k]))]

bottomMask(boundary, ls) ==
    [k \in 1..Len(ls) |-> BottomMaskRow(At(boundary, ls[k]))]

\* the call fusion_perslice(np.stack((topVol[l_s], bottomVol[l_s])),
\* torch.cat((topMask, bottomMask)), GFr, device): what it is handed
fusion_perslice(topVol, bottomVol, boundary, ls, g) ==
    [x |-> <<Take(topVol, ls), Take(bottomVol, ls)>>,
     mask |-> <<topMask(boundary, ls), bottomMask(boundary, ls)>>,
     GFr |-> g]

\* a slice of an array of np.uint16 zeros
ZeroSlice ==
    [x |-> << >>, mask |-> << >>, GFr |-> << >>, T |-> FALSE,
     dtype |-> "uint16"]

\* np.zeros(topVol.shape, dtype=np.uint16)
Zeros(topVol) ==
    [z \in 1..Len(topVol) |-> [ZeroSlice EXCEPT !.T = topVol[z].T]]

\* recon[ind] = a: the slice takes the values, keeps its shape and dtype
Assigned(slice, a) == [slice EXCEPT !.x = a.x, !.mask = a.mask, !.GFr = a.GFr]

\* the result, were lines 496-497 and 723-724 absent
ResultNoTranspose(T_flag, recon) == recon

\* result = recon.transpose(0, 2, 1) if T_flag else recon
Result(T_flag, recon) == IF T_flag THEN Transpose(recon) ELSE recon

\* the first index operation of an iteration that raises IndexError, if any
IndexError(f) ==
    IF \E k \in 1..Len(LS(f)) : ~IndexOK(LS(f)[k], Len(f.boundary))
        THEN "boundary"
    ELSE IF \E k \in 1..Len(LS(f)) : ~IndexOK(LS(f)[k], Len(f.topVol))
        THEN "topVol"
    ELSE IF \E k \in 1..Len(LS(f)) : ~IndexOK(LS(f)[k], Len(f.bottomVol))
        THEN "bottomVol"
    ELSE "none"

\* lines 1101-1149 as a function of the arguments, for a call no index
\* operation of which raises: slice ind of the result is what
\* fusion_perslice is handed for the window l_temp[ind : ind + 2 * h + 1]
FusedVolume(topVol, bottomVol, boundary, GFr) ==
    LET g == <<GFr[1], ReducedXY(GFr[2])>>
        h == FloorDiv(g[1], 2)
        l_temp == LTemp(Len(topVol), g[1])
    IN [z \in 1..Len(topVol) |->
          IF z - 1 + h < Len(l_temp) - h
          THEN Assigned(Zeros(topVol)[z],
                        fusion_perslice(topVol, bottomVol, boundary,
                                        Slice(l_temp, z - 1, z + 2 * h), g))
          ELSE Zeros(topVol)[z]]

\* fusionResult's locals before a call
\* the GFr argument, were lines 493 and 720
\* GFr=self.train_params["window_size"]: the list of the object itself
WindowShared(tp) == [GFr |-> tp.window_size, shared |-> TRUE]

\* GFr=copy.deepcopy(self.train_params["window_size"]): a list of the call
WindowCopy(tp) == [GFr |-> tp.window_size, shared |-> FALSE]

NoCall ==
    [caller |-> "none", topVol |-> << >>, bottomVol |-> << >>,
     boundary |-> << >>, save_separate_results |-> FALSE, path |-> None,
     GFr |-> << >>, byDefault |-> FALSE, l_temp |-> << >>, ii |-> 0,
     recon |-> << >>, read |-> {}, saved |-> << >>, T_flag |-> FALSE,
     written |-> << >>, windows |-> << >>, shared |-> FALSE]

----------------------------------------------------------------------------
(* Runs *)

Running == [kind |-> "running", error |-> "", result |-> << >>]
ReturnedNone == [kind |-> "none", error |-> "", result |-> << >>]
Raised(e) == [kind |-> "raised", error |-> e, result |-> << >>]
Returned(r) == [kind |-> "returned", error |-> "", result |-> r]

NoLocals ==
    [rawPlanes_top |-> << >>, rawPlanes_bottom |-> << >>,
     boundaryE |-> << >>, computed |-> << >>, p |-> None, made |-> None,
     stages |-> << >>, dark |-> {}]

\* the directories there are before the first run
Present == {Root, Given, GivenDeep}

\* the test of lines 248 and 566, were it left out
ExistsAlways(path) == TRUE

\* os.path.exists(path)
Exists(path) == path \in dirs

\* a run may start: none is under way and the session has runs left
CanStart == pc \in {"idle", "done"} /\ run < limit

\* the arguments of a call, fields a call does not take left at their default
Args(entry, save_path, save_folder, boundary_path, have_top, have_bottom, save_separate_results, cam_pos) ==
    [entry |-> entry, save_path |-> save_path, save_folder |-> save_folder,
     boundary_path |-> boundary_path, have_top |-> have_top,
     have_bottom |-> have_bottom,
     save_separate_results |-> save_separate_results, cam_pos |-> cam_pos]

\* (top_illu_data is not None) and (bottom_illu_data is not None); the
\* left / right arguments are left at None
PairGiven(a) == a.have_top /\ a.have_bottom

----------------------------------------------------------------------------
(* fusionResult: the call, lines 1075-1149 *)

\* lines 1101-1115: shapes, the window, l_temp, the empty result
FusionBegin ==
    /\ pc = "f_begin"
    /\ LET g0 == IF fr.byDefault THEN GFr_default ELSE fr.GFr
           g == <<g0[1], ReducedXY(g0[2])>>
       IN /\ GFr_default' = IF fr.byDefault THEN g ELSE GFr_default
          /\ train_params' = IF fr.shared
                             THEN [train_params EXCEPT !.window_size = g]
                             ELSE train_params
          /\ fr' = [fr EXCEPT !.GFr = g,
                              !.l_temp = LTemp(Len(fr.topVol), g[1]),
                              !.ii = FloorDiv(g[1], 2),
                              !.recon = Zeros(fr.topVol)]
    /\ pc' = "f_loop"
    /\ UNCHANGED <<data, limit, stageVars, fsVars, run, trains, args, loc, outcome, calls>>

\* lines 1117-1148: one iteration of the loop
FusionStep ==
    /\ pc = "f_loop"
    /\ InLoop(fr)
    /\ LET ls == LS(fr)
           ind == Ind(fr)
           seen == fr.read \cup {ls[k] : k \in 1..Len(ls)}
       IN IF IndexError(fr) # "none"
          THEN /\ fr' = [fr EXCEPT !.read = seen]
               /\ pc' = "done"
               /\ outcome' = Raised("IndexError")
               /\ UNCHANGED mfiles
          ELSE IF fr.save_separate_results /\ fr.path \notin dirs
          THEN /\ fr' = [fr EXCEPT !.read = seen]
               /\ pc' = "done"
               /\ outcome' = Raised("FileNotFoundError")
               /\ UNCHANGED mfiles
          ELSE /\ fr' = [fr EXCEPT
                     !.read = seen,
                     !.recon[ind + 1] =
                         Assigned(@, fusion_perslice(fr.topVol, fr.bottomVol,
                                                     fr.boundary, ls, fr.GFr)),
                     !.written = Append(fr.written, ind),
                     !.windows = Append(fr.windows, ls),
                     !.saved = IF fr.save_separate_results
                               THEN Append(fr.saved, ind) ELSE fr.saved,
                     !.ii = fr.ii + 1]
               /\ mfiles' = IF fr.save_separate_results
                            THEN Without(mfiles, fr.path, ind)
                                   \cup {[dir |-> fr.path, name |-> ind,
                                           T |-> IF fr.T_flag
                                                 THEN ~fr.topVol[1].T
                                                 ELSE fr.topVol[1].T,
                                           by |-> run]}
                            ELSE mfiles
               /\ UNCHANGED <<pc, outcome>>
    /\ UNCHANGED <<objVars, stageVars, GFr_default, dirs, bfiles, rfiles, pfiles, run,
                   trains, args, loc, calls>>

\* line 1149: return recon
FusionReturn ==
    /\ pc = "f_loop"
    /\ ~InLoop(fr)
    /\ calls' = Append(calls,
                  [run |-> run, cam_pos |-> args.cam_pos,
                   caller |-> fr.caller, byDefault |-> fr.byDefault,
                   topVol |-> fr.topVol, bottomVol |-> fr.bottomVol,
                   boundary |-> fr.boundary, GFr |-> fr.GFr,
                   recon |-> fr.recon, written |-> fr.written,
                   windows |-> fr.windows])
    /\ pc' = CASE fr.caller = "train" -> "t_finish"
               [] fr.caller = "train_with_boundary" -> "w_finish"
               [] OTHER -> "d_finish"
    /\ UNCHANGED <<objVars, stageVars, GFr_default, fsVars, run, trains, args, loc, fr, outcome>>

\* a caller of fusionResult other than the class: the volumes of the pair, a
\* boundary array, GFr left at its default or given
DirectCall ==
    /\ CanStart
    /\ run' = run + 1
    /\ args' = Args("fusionResult", None, "", None, TRUE, TRUE, FALSE, "front")
    /\ loc' = NoLocals
    /\ outcome' = Running
    /\ \E b \in {Flat(Len(data.top), 0), Flat(Len(data.top), 1)},
          w \in 0..MaxWin :
          fr' = [NoCall EXCEPT !.caller = "fusionResult",
                               !.topVol = data.top,
                               !.bottomVol = data.bottom,
                               !.boundary = b,
                               !.byDefault = (w = 0),
                               !.GFr = IF w = 0 THEN << >>
                                       ELSE <<w, DefaultGFrXY>>]
    /\ pc' = "f_begin"
    /\ UNCHANGED <<objVars, stageVars, GFr_default, fsVars, trains, calls>>

\* the caller has the fused volume
DirectReturn ==
    /\ pc = "d_finish"
    /\ outcome' = Returned(fr.recon)
    /\ pc' = "done"
    /\ UNCHANGED <<objVars, stageVars, GFr_default, fsVars, run, trains, args, loc, fr, calls>>

----------------------------------------------------------------------------
(* The boundary surface between the estimator and the blender *)

\* what dualViewFusion followed by the bilinear resize to (s, n_c) may
\* return for a volume of depth s, in units of 1/Scale: below the first row,
\* between two rows, past the last row, or varying with depth
Estimates(s) ==
    {Flat(s, 0 - Scale), Flat(s, Scale - 1), Flat(s, Rows * Scale),
     Ramp(s, Scale - 1, FloorDiv(Scale, 2))}

\* np.clip(v, lo, hi)
Clip(v, lo, hi) == IF v < lo THEN lo ELSE IF v > hi THEN hi ELSE v

\* .astype(np.uint16) of a non-negative real given in units of 1/Scale
AsUInt16(v) == FloorDiv(v, Scale) % UInt16

\* lines 459-467: boundary * resample_ratio, placed in the full frame,
\* offset by xs, clipped against m_o and cast
ClipCast(est, xs) ==
    [z \in 1..Len(est) |->
        [x \in 1..Len(est[z]) |->
            AsUInt16(Clip(est[z][x] * ResampleRatio + xs * Scale,
                          0, Rows * Scale))]]

\* tifffile.imwrite of a uint16 array: the samples as stored
Raster(b) == [z \in 1..Len(b) |-> [x \in 1..Len(b[z]) |-> b[z][x] % UInt16]]

\* the float32 nearest to an integer 0 <= v < 2^25: exact up to 2^24, the
\* even neighbour above
Float32(v) == IF v <= 16777216 THEN v ELSE FloorDiv(v + 1, 2) * 2

\* tifffile.imread(...).astype(np.float32)
AsFloat32(b) == [z \in 1..Len(b) |-> [x \in 1..Len(b[z]) |-> Float32(b[z][x])]]

\* the raster written, and the array read, were line 468 and line 474 absent
WrittenBoundaryNoFlip(cam_pos, boundaryE) == Raster(boundaryE)
ReadBoundaryNoFlip(cam_pos, raster) == AsFloat32(raster)

\* lines 468-470: the raster train writes
WrittenBoundary(cam_pos, boundaryE) == Raster(FlipIf(cam_pos, boundaryE))

\* lines 473-475 and 680-685: the array the blender is driven by
ReadBoundary(cam_pos, raster) == FlipIf(cam_pos, AsFloat32(raster))

----------------------------------------------------------------------------
(* FUSE_illu.train, lines 175-515 *)

\* os.path.join(save_path, save_folder)
Base(a) == Join(a.save_path, a.save_folder)

\* where the leaf files of a train run go: the folder of the primary volume
Leaf(a) == Join(Base(a), topillu)

\* the folder of leaf_paths["info.npy"][0] (v = "top") and [1] ("bottom")
InfoDir(a, v) == Join(Base(a), IF v = "top" THEN topillu ELSE bottomillu)

\* leaf_paths["fuse_illu_mask"]
LeafMask(a) == Join(Leaf(a), "fuse_illu_mask")

\* the calls of train on offer: a complete pair under every option, and an
\* incomplete pair or a missing save path under the default options
TrainArgs ==
    {Args("train", Root, sf, None, TRUE, TRUE, ssr, cp) :
        sf \in {"", "out"}, ssr \in BOOLEAN, cp \in {"front", "back"}}
    \cup {Args("train", Root, sf, None, ht, hb, FALSE, "front") :
        sf \in {"", "out"}, ht \in BOOLEAN, hb \in BOOLEAN}
    \cup {Args("train", Missing, "", None, TRUE, TRUE, FALSE, "front")}

\* lines 248-314: the save path, the folder, the parameter file, the pair
TrainBegin ==
    /\ CanStart
    /\ trains < MaxTrain
    /\ trains' = trains + 1
    /\ \E a \in TrainArgs :
        /\ args' = a
        /\ run' = run + 1
        /\ fr' = NoCall
        /\ IF ~Exists(a.save_path)
           THEN /\ outcome' = ReturnedNone
                /\ pc' = "done"
                /\ loc' = NoLocals
                /\ UNCHANGED <<dirs, pfiles>>
           ELSE /\ dirs' = dirs \cup {Base(a)}
                /\ pfiles' = Without(pfiles, Base(a), "illu_info.yaml")
                     \cup {[dir |-> Base(a), name |-> "illu_info.yaml",
                            by |-> run + 1]}
                /\ IF PairGiven(a)
                   THEN /\ loc' = [NoLocals EXCEPT
                                     !.rawPlanes_top =
                                         Ingested(data.lateral, data.top),
                                     !.rawPlanes_bottom =
                                         Ingested(data.lateral, data.bottom)]
                        /\ outcome' = Running
                        /\ pc' = "t_prepare"
                   ELSE /\ loc' = NoLocals
                        /\ outcome' = ReturnedNone
                        /\ pc' = "done"
    /\ UNCHANGED <<objVars, stageVars, GFr_default, bfiles, rfiles, mfiles, calls>>

\* the first stage, were measureSample to accept an empty population
PrepareErrorNoMeasure(tp, top, bottom, dark) ==
    IF Len(bottom) < Len(top) THEN "extractNSCTF"
    ELSE IF tp.require_segmentation /\ Len(top) < SavgolWindow
        THEN "segmentSample"
    ELSE IF tp.require_segmentation /\ Len(bottom) # Len(top)
        THEN "segmentSample"
    ELSE "none"

\* the first stage of lines 315-443 that raises, if any: measureSample takes
\* the maximum of the nonzero voxels of the down-sampled crop (lines
\* 999-1000), dark being the volumes that have none; extractNSCTF assigns a
\* slice of the secondary volume for every depth of the primary (lines
\* 827-845); segmentSample filters along depth with a window of 11 (line
\* 882) and adds the two volumes (line 883)
PrepareError(tp, top, bottom, dark) ==
    IF dark # {} THEN "measureSample"
    ELSE IF Len(bottom) < Len(top) THEN "extractNSCTF"
    ELSE IF tp.require_segmentation /\ Len(top) < SavgolWindow
        THEN "segmentSample"
    ELSE IF tp.require_segmentation /\ Len(bottom) # Len(top)
        THEN "segmentSample"
    ELSE "none"

\* lines 315-443: subfolders, the depth flip, localization, statistics,
\* features, segmentation
TrainPrepare ==
    /\ pc = "t_prepare"
    /\ dirs' = dirs \cup {Join(Base(args), topillu), Join(Base(args), bottomillu)}
    /\ \E dark \in SUBSET {"top", "bottom"} :
        LET top == FlipIf(args.cam_pos, loc.rawPlanes_top)
            bottom == FlipIf(args.cam_pos, loc.rawPlanes_bottom)
            err == PrepareError(train_params, top, bottom, dark)
            measured == IF err # "measureSample" THEN {"top", "bottom"}
                        ELSE IF "top" \in dark THEN {} ELSE {"top"}
        IN /\ loc' = [loc EXCEPT
                        !.rawPlanes_top = top,
                        !.rawPlanes_bottom = bottom,
                        !.dark = dark,
                        !.stages = <<"localizingSample", "measureSample">>
                                   \o (IF err = "measureSample" THEN << >>
                                       ELSE <<"extractNSCTF">>)
                                   \o (IF train_params.require_segmentation
                                          /\ err \notin {"measureSample",
                                                         "extractNSCTF"}
                                       THEN <<"segmentSample">> ELSE << >>)]
           /\ pfiles' = {f \in pfiles : ~(f.name = "info.npy"
                                          /\ \E v \in measured :
                                                f.dir = InfoDir(args, v))}
                 \cup {[dir |-> InfoDir(args, v), name |-> "info.npy",
                        by |-> run] : v \in measured}
           /\ IF err = "none"
              THEN pc' = "t_estimate" /\ UNCHANGED outcome
              ELSE pc' = "done" /\ outcome' = Raised("ValueError")
    /\ UNCHANGED <<objVars, stageVars, GFr_default, bfiles, rfiles, mfiles, run,
                   trains, args, fr, calls>>

\* lines 445-467: the estimator, the resize, the crop offset, the clip
TrainEstimate ==
    /\ pc = "t_estimate"
    /\ \E est \in Estimates(Len(loc.rawPlanes_top)), xs \in 0..MaxCrop :
        loc' = [loc EXCEPT !.boundaryE = ClipCast(est, xs),
                           !.computed = ClipCast(est, xs),
                           !.stages = Append(loc.stages, "dualViewFusion")]
    /\ pc' = "t_write"
    /\ UNCHANGED <<objVars, stageVars, GFr_default, fsVars, run, trains, args, fr, outcome, calls>>

\* lines 468-470: the boundary raster is written
TrainWrite ==
    /\ pc = "t_write"
    /\ LET out == WrittenBoundary(args.cam_pos, loc.boundaryE)
       IN /\ bfiles' = Without(bfiles, Leaf(args), fb_xy(train_params))
               \cup {[dir |-> Leaf(args), name |-> fb_xy(train_params),
                      raster |-> out, by |-> run]}
          /\ loc' = [loc EXCEPT !.boundaryE = FlipIf(args.cam_pos, loc.boundaryE)]
    /\ pc' = "t_read"
    /\ UNCHANGED <<objVars, stageVars, GFr_default, dirs, rfiles, mfiles, pfiles, run,
                   trains, args, fr, outcome, calls>>

\* lines 472-475: the boundary raster is read back
TrainRead ==
    /\ pc = "t_read"
    /\ \E f \in FileAt(bfiles, Leaf(args), fb_xy(train_params)) :
        loc' = [loc EXCEPT !.boundaryE = ReadBoundary(args.cam_pos, f.raster)]
    /\ pc' = "t_mask"
    /\ UNCHANGED <<objVars, stageVars, GFr_default, fsVars, run, trains, args, fr, outcome, calls>>

\* lines 477-494: the mask directory, and the call of fusionResult
TrainCall ==
    /\ pc = "t_mask"
    /\ IF args.save_separate_results
       THEN /\ dirs' = {d \in dirs : ~IsUnder(d, LeafMask(args))}
                         \cup Prefixes(LeafMask(args))
            /\ mfiles' = {f \in mfiles : ~IsUnder(f.dir, LeafMask(args))}
            /\ loc' = [loc EXCEPT !.p = LeafMask(args),
                                   !.made = LeafMask(args)]
       ELSE /\ loc' = [loc EXCEPT !.p = None]
            /\ UNCHANGED <<dirs, mfiles>>
    /\ fr' = [NoCall EXCEPT
                !.caller = "train",
                !.topVol = loc.rawPlanes_top,
                !.bottomVol = loc.rawPlanes_bottom,
                !.boundary = loc.boundaryE,
                !.T_flag = data.lateral,
                !.save_separate_results = args.save_separate_results,
                !.path = loc'.p,
                !.GFr = WindowCopy(train_params).GFr,
                !.shared = WindowCopy(train_params).shared]
    /\ pc' = "f_begin"
    /\ UNCHANGED <<objVars, stageVars, GFr_default, bfiles, rfiles, pfiles, run, trains, args,
                   outcome, calls>>

\* lines 496-515: the depth flip of the result, and the result volume
\* written; the write may fail (OSError)
TrainFinish ==
    /\ pc = "t_finish"
    /\ LET result == FlipIf(args.cam_pos, Result(data.lateral, fr.recon))
       IN \/ /\ rfiles' = Without(rfiles, Leaf(args), illu_name(train_params))
                  \cup {[dir |-> Leaf(args), name |-> illu_name(train_params),
                         volume |-> result, by |-> run]}
             /\ outcome' = Returned(result)
          \/ /\ outcome' = Raised("OSError")
             /\ UNCHANGED rfiles
    /\ pc' = "done"
    /\ UNCHANGED <<objVars, stageVars, GFr_default, dirs, bfiles, mfiles, pfiles, run,
                   trains, args, loc, fr, calls>>

----------------------------------------------------------------------------
(* FUSE_illu.train_with_boundary, lines 517-761 *)

\* os.path.join(save_path, self.sample_params["topillu_saving_name"],
\* "fuse_illu_mask"): the directory lines 687-708 empty and create
NamedMask(a) == Join(Join(a.save_path, topillu), "fuse_illu_mask")

\* os.path.join(save_path, "fuse_illu_mask"): the path of lines 717-719
PassedMask(a) == Join(a.save_path, "fuse_illu_mask")

\* the calls of train_with_boundary on offer: a complete pair under every
\* option, and an incomplete pair or a missing save path under the default
\* options
TwbArgs ==
    {Args("train_with_boundary", Root, "", bp, TRUE, TRUE, ssr, cp) :
        bp \in {Join(Root, topillu), Given, GivenDeep}, ssr \in BOOLEAN,
        cp \in {"front", "back"}}
    \cup {Args("train_with_boundary", Root, "", Given, ht, hb, FALSE, "front") :
        ht \in BOOLEAN, hb \in BOOLEAN}
    \cup {Args("train_with_boundary", Missing, "", Given, TRUE, TRUE, FALSE,
                "front")}

\* lines 566-675: the save path, the pair, the depth flip
TwbBegin ==
    /\ CanStart
    /\ \E a \in TwbArgs :
        /\ args' = a
        /\ run' = run + 1
        /\ fr' = NoCall
        /\ IF ~Exists(a.save_path) \/ ~PairGiven(a)
           THEN /\ outcome' = ReturnedNone
                /\ pc' = "done"
                /\ loc' = NoLocals
           ELSE /\ loc' = [NoLocals EXCEPT
                             !.rawPlanes_top =
                                 FlipIf(a.cam_pos,
                                        Ingested(data.lateral, data.top)),
                             !.rawPlanes_bottom =
                                 FlipIf(a.cam_pos,
                                        Ingested(data.lateral, data.bottom))]
                /\ outcome' = Running
                /\ pc' = "w_read"
    /\ UNCHANGED <<objVars, stageVars, GFr_default, fsVars, trains, calls>>

\* lines 679-685: the boundary raster named fusionBoundary_xy.tif is read
TwbRead ==
    /\ pc = "w_read"
    /\ IF FileAt(bfiles, args.boundary_path, fb_xy_literal) = {}
       THEN /\ pc' = "done"
            /\ outcome' = Raised("FileNotFoundError")
            /\ UNCHANGED loc
       ELSE /\ \E f \in FileAt(bfiles, args.boundary_path, fb_xy_literal) :
                 loc' = [loc EXCEPT
                           !.boundaryE = ReadBoundary(args.cam_pos, f.raster)]
            /\ pc' = "w_mask"
            /\ UNCHANGED outcome
    /\ UNCHANGED <<objVars, stageVars, GFr_default, fsVars, run, trains, args, fr, calls>>

\* lines 687-721: the mask directory, and the call of fusionResult
TwbCall ==
    /\ pc = "w_mask"
    /\ IF args.save_separate_results
       THEN /\ dirs' = {d \in dirs : ~IsUnder(d, NamedMask(args))}
                         \cup Prefixes(NamedMask(args))
            /\ mfiles' = {f \in mfiles : ~IsUnder(f.dir, NamedMask(args))}
            /\ loc' = [loc EXCEPT !.p = PassedMask(args),
                                   !.made = NamedMask(args)]
       ELSE /\ loc' = [loc EXCEPT !.p = PassedMask(args)]
            /\ UNCHANGED <<dirs, mfiles>>
    /\ fr' = [NoCall EXCEPT
                !.caller = "train_with_boundary",
                !.topVol = loc.rawPlanes_top,
                !.bottomVol = loc.rawPlanes_bottom,
                !.boundary = loc.boundaryE,
                !.T_flag = data.lateral,
                !.save_separate_results = args.save_separate_results,
                !.path = PassedMask(args),
                !.GFr = WindowCopy(train_params).GFr,
                !.shared = WindowCopy(train_params).shared]
    /\ pc' = "f_begin"
    /\ UNCHANGED <<objVars, stageVars, GFr_default, bfiles, rfiles, pfiles, run, trains, args,
                   outcome, calls>>

\* lines 723-761: the depth flip of the result, and the result volume
\* written; the write may fail (OSError)
TwbFinish ==
    /\ pc = "w_finish"
    /\ LET result == FlipIf(args.cam_pos, Result(data.lateral, fr.recon))
       IN \/ /\ rfiles' = Without(rfiles, args.save_path, illu_name(train_params))
                  \cup {[dir |-> args.save_path,
                         name |-> illu_name(train_params),
                         volume |-> result, by |-> run]}
             /\ outcome' = Returned(result)
          \/ /\ outcome' = Raised("OSError")
             /\ UNCHANGED rfiles
    /\ pc' = "done"
    /\ UNCHANGED <<objVars, stageVars, GFr_default, dirs, bfiles, mfiles, pfiles, run,
                   trains, args, loc, fr, calls>>

----------------------------------------------------------------------------
(* FUSE_illu.localizingSample, lines 1021-1072 *)

\* the positions a foreground bounding box may start or end at on an axis
\* of the extent given: the edges, and the positions from which the margin
\* reaches or passes an edge
Marks(extent) ==
    {i \in {0, 1, Margin, extent - Margin - 1, extent - 1} :
        0 <= i /\ i < extent}

\* np.where(np.sum(segMask, axis) != 0)[0] for a foreground that spans
\* first..last on the axis: the sorted indices, given by their ends; the
\* empty array when nothing is left of the projection
Indices(extent) ==
    {d \in Marks(extent) \X Marks(extent) : d[1] < d[2]}
    \cup {<<a>> : a \in Marks(extent)}
    \cup {<< >>}

\* the end of a box, were line 1060 min(n, d1[-1])
BoxEndNoMargin(d, extent) == Min(extent, d[Len(d)])

\* max(0, d[0] - 100)
BoxStart(d) == Max(0, d[1] - Margin)

\* min(n, d[-1] + 100)
BoxEnd(d, extent) == Min(extent, d[Len(d)] + Margin)

\* the loop of line 1040
Views == <<"top", "bottom">>

NoCrop ==
    [pc |-> "idle", m |-> 0, n |-> 0, d1 |-> << >>, d2 |-> << >>, f |-> 1,
     cropInfo |-> << >>, outcome |-> Running]

\* the projections localizingSample may be handed: for each of the two
\* volumes the foreground columns d1 and rows d2 that are left of it
CropCalls ==
    [pc : {"loop"}, m : {RowExtent}, n : {ColExtent},
     d1 : [1..2 -> Indices(ColExtent)],
     d2 : [1..2 -> Indices(RowExtent)],
     f : {1}, cropInfo : {<< >>}, outcome : {Running}]

\* lines 1040-1064: one view; d1[0] of an empty array raises IndexError
LocalizeView ==
    /\ crop.pc = "loop"
    /\ crop.f <= Len(Views)
    /\ LET d1 == crop.d1[crop.f]
           d2 == crop.d2[crop.f]
       IN IF d1 = << >> \/ d2 = << >>
          THEN crop' = [crop EXCEPT !.pc = "done",
                                    !.outcome = Raised("IndexError")]
          ELSE crop' = [crop EXCEPT
                          !.f = crop.f + 1,
                          !.cropInfo = Append(crop.cropInfo,
                              [startX |-> BoxStart(d2),
                               endX |-> BoxEnd(d2, crop.m),
                               startY |-> BoxStart(d1),
                               endY |-> BoxEnd(d1, crop.n)])]
    /\ UNCHANGED <<objVars, fsVars, runVars, seg, tfp>>

\* lines 1065-1072: the row "in summary", and the return
LocalizeSummary ==
    /\ crop.pc = "loop"
    /\ crop.f > Len(Views)
    /\ LET top == crop.cropInfo[1]
           bottom == crop.cropInfo[2]
           summary == [startX |-> Min(top.startX, bottom.startX),
                       endX |-> Max(top.endX, bottom.endX),
                       startY |-> Min(top.startY, bottom.startY),
                       endY |-> Max(top.endY, bottom.endY)]
       IN crop' = [crop EXCEPT !.pc = "done",
                               !.cropInfo = Append(crop.cropInfo, summary),
                               !.outcome = Returned(summary)]
    /\ UNCHANGED <<objVars, fsVars, runVars, seg, tfp>>

----------------------------------------------------------------------------
(* FUSE_illu.segmentSample, lines 851-973 *)

\* the depths segmentSample may be handed: a single slice, one slice short
\* of the Savitzky-Golay window, the window and beyond
SegDepths ==
    {1, SavgolWindow - 1} \cup (SavgolWindow..(SavgolWindow + MaxSegExtra))

\* scipy.signal.find_peaks(...)[0] as far as it is read: no peak, or the
\* first peak, which is never an end of the curve
Peaks(s) == {<< >>} \cup {<<q>> : q \in 1..(s - 2)}

\* np.linspace(0.5, 0.1, k): element j, counted from 1, is the fraction
\* <<numerator, denominator>> of 0.5 - 0.4 * (j - 1) / (k - 1)
LinSpace(k) ==
    [j \in 1..k |->
        IF k = 1 THEN <<5, 10>>
        ELSE <<5 * (k - 1) - 4 * (j - 1), 10 * (k - 1)>>]

\* (a + b) / 2 of a pair of thresholds, kept as the pair averaged
Mean(th) == [mean_of |-> th]

\* filters.threshold_otsu of slice i of a volume, raised to an exponent
Otsu(what, i, exponent) ==
    [otsu_of |-> what, slice |-> i, exponent |-> exponent]

\* min(l[0] + 1 if len(l) > 0 else s // 2, s // 2)
Crossover(l, s) ==
    Min(IF Len(l) > 0 THEN l[1] + 1 ELSE FloorDiv(s, 2), FloorDiv(s, 2))

\* the exponents left, were line 930 absent
RestSame(t) == t

\* t[1:]
Rest(t) == Tail(t)

NoSeg ==
    [pc |-> "idle", s |-> 0, sparse_sample |-> FALSE, l_all |-> << >>,
     peaks |-> << >>, th |-> << >>, th_F |-> << >>, th_F0 |-> << >>,
     c_all |-> 0, c |-> << >>, t |-> << >>, t0 |-> << >>, i |-> 0,
     used |-> << >>, outcome |-> Running]

\* the calls of segmentSample of depth s: sparse_sample, the first peak of
\* the global count curve and of the curve of each lateral column, the
\* global intensity and feature thresholds
SegCallsOf(s) ==
    {[NoSeg EXCEPT !.pc = "begin", !.s = s, !.sparse_sample = sp,
                   !.l_all = a, !.peaks = q,
                   !.th = <<"th_top", "th_bottom">>,
                   !.th_F = <<"th_top_F", "th_bottom_F">>,
                   !.th_F0 = <<"th_top_F", "th_bottom_F">>] :
        sp \in BOOLEAN, a \in Peaks(s), q \in [1..NCols -> Peaks(s)]}

SegCalls == UNION {SegCallsOf(s) : s \in SegDepths}

\* lines 879-908: the smoothed curves, the crossovers, the exponents;
\* savgol_filter raises ValueError when the axis is shorter than its window
SegBegin ==
    /\ seg.pc = "begin"
    /\ IF seg.s < SavgolWindow
       THEN seg' = [seg EXCEPT !.pc = "done",
                               !.outcome = Raised("ValueError")]
       ELSE LET c_all == Crossover(seg.l_all, seg.s)
            IN seg' = [seg EXCEPT
                         !.pc = "loop",
                         !.c_all = c_all,
                         !.c = [x \in 1..NCols |->
                                    Crossover(seg.peaks[x], seg.s)],
                         !.t = LinSpace(seg.s - c_all),
                         !.t0 = LinSpace(seg.s - c_all),
                         !.i = 0]
    /\ UNCHANGED <<objVars, fsVars, runVars, crop, tfp>>

\* lines 909-958: slice i; used[i + 1] keeps the thresholds and the
\* exponent the slice was segmented with, and what it read of the
\* variables that outlive an iteration (t, th_top_F, th_bottom_F)
SegStep ==
    /\ seg.pc = "loop"
    /\ seg.i < seg.s
    /\ IF seg.i < seg.c_all
       THEN seg' = [seg EXCEPT
                      !.i = seg.i + 1,
                      !.used = Append(seg.used,
                          [exponent |-> None,
                           th_slice |-> Mean(seg.th),
                           th_F_slice |-> Mean(seg.th_F),
                           t_read |-> None,
                           th_F_read |-> seg.th_F])]
       ELSE IF seg.t = << >>
       THEN seg' = [seg EXCEPT !.pc = "done",
                               !.outcome = Raised("IndexError")]
       ELSE LET th_F == <<Otsu("topVol_F", seg.i, None),
                          Otsu("bottomVol_F", seg.i, None)>>
            IN seg' = [seg EXCEPT
                         !.i = seg.i + 1,
                         !.th_F = th_F,
                         !.t = Rest(seg.t),
                         !.used = Append(seg.used,
                             [exponent |-> seg.t[1],
                              th_slice |->
                                  Mean(<<Otsu("topVol", seg.i, seg.t[1]),
                                         Otsu("bottomVol", seg.i, seg.t[1])>>),
                              th_F_slice |-> Mean(th_F),
                              t_read |-> seg.t,
                              th_F_read |-> None])]
    /\ UNCHANGED <<objVars, fsVars, runVars, crop, tfp>>

\* lines 960-973: refineShape on the masks, with the per-column crossovers
\* unless the sample is sparse
SegReturn ==
    /\ seg.pc = "loop"
    /\ seg.i = seg.s
    /\ seg' = [seg EXCEPT
                 !.pc = "done",
                 !.outcome = Returned(
                     [masks |-> seg.used,
                      max_seg |-> IF seg.sparse_sample
                                  THEN [x \in 1..NCols |-> -1]
                                  ELSE seg.c])]
    /\ UNCHANGED <<objVars, fsVars, runVars, crop, tfp>>

----------------------------------------------------------------------------
(* FUSE_illu.train_from_params, lines 112-173 *)

\* the directions a caller may name: the four of the method, and another
Directions == {"Top", "Bottom", "Left", "Right", "Front"}

\* the dictionaries train_from_params may be handed; the two images are in
\* the tiff files "image1" and "image2"
ParamsOnOffer ==
    [method : {"illumination", "detection"}, amount : 1..MaxAmount,
     image1 : {"image1"}, image2 : {"image2"},
     direction1 : Directions, direction2 : Directions,
     tmp_path : {Root, <<"tmp">>}, save_separate_results : BOOLEAN,
     cam_pos : {"front", "back"}, keep_intermediates : BOOLEAN]

\* lines 130-133: no side has data
NoData ==
    [top_illu_data |-> None, bottom_illu_data |-> None,
     left_illu_data |-> None, right_illu_data |-> None]

\* the sides, were the first image always taken for the top or the left
SidesByPosition(p) ==
    IF {p.direction1, p.direction2} = {"Top", "Bottom"}
    THEN [NoData EXCEPT !.top_illu_data = p.image1,
                        !.bottom_illu_data = p.image2]
    ELSE IF {p.direction1, p.direction2} = {"Left", "Right"}
    THEN [NoData EXCEPT !.left_illu_data = p.image1,
                        !.right_illu_data = p.image2]
    ELSE << >>

\* lines 134-149: the data of each side; << >> where the chain of tests
\* ends in its else branch
Sides(p) ==
    IF p.direction1 = "Top" /\ p.direction2 = "Bottom"
    THEN [NoData EXCEPT !.top_illu_data = p.image1,
                        !.bottom_illu_data = p.image2]
    ELSE IF p.direction1 = "Bottom" /\ p.direction2 = "Top"
    THEN [NoData EXCEPT !.top_illu_data = p.image2,
                        !.bottom_illu_data = p.image1]
    ELSE IF p.direction1 = "Left" /\ p.direction2 = "Right"
    THEN [NoData EXCEPT !.left_illu_data = p.image1,
                        !.right_illu_data = p.image2]
    ELSE IF p.direction1 = "Right" /\ p.direction2 = "Left"
    THEN [NoData EXCEPT !.left_illu_data = p.image2,
                        !.right_illu_data = p.image1]
    ELSE << >>

NoParams ==
    [pc |-> "idle", params |-> << >>, sides |-> << >>,
     new_dir_path |-> None, made |-> {}, started |-> << >>,
     outcome |-> Running]

\* lines 122-149: the method, the amount, the directions
FromParamsCheck ==
    /\ tfp.pc = "check"
    /\ IF tfp.params.method # "illumination"
          \/ tfp.params.amount # Images
          \/ Sides(tfp.params) = << >>
       THEN tfp' = [tfp EXCEPT !.pc = "done",
                               !.outcome = Raised("ValueError")]
       ELSE tfp' = [tfp EXCEPT !.pc = "makedirs",
                               !.sides = Sides(tfp.params)]
    /\ UNCHANGED <<objVars, fsVars, runVars, crop, seg>>

\* lines 150-154: the directory named after the time of the call, made
\* with the directories above it
FromParamsMakedirs ==
    /\ tfp.pc = "makedirs"
    /\ \E current_time \in {"20260101_000000", "20260101_000001"} :
         LET new_dir_path == Join(tfp.params.tmp_path, current_time)
         IN /\ dirs' = dirs \cup Prefixes(new_dir_path)
            /\ tfp' = [tfp EXCEPT
                         !.pc = "train",
                         !.new_dir_path = new_dir_path,
                         !.made = Prefixes(new_dir_path) \ dirs]
    /\ UNCHANGED <<objVars, bfiles, rfiles, mfiles, pfiles, runVars, crop, seg>>

\* lines 157-168: the run of train, taken by the arguments it is started
\* with and by how it ends: with the fused volume, or raising
FromParamsTrain ==
    /\ tfp.pc = "train"
    /\ LET call == [top_illu_data |-> tfp.sides.top_illu_data,
                    bottom_illu_data |-> tfp.sides.bottom_illu_data,
                    left_illu_data |-> tfp.sides.left_illu_data,
                    right_illu_data |-> tfp.sides.right_illu_data,
                    save_path |-> tfp.new_dir_path,
                    save_separate_results |->
                        tfp.params.save_separate_results,
                    cam_pos |-> tfp.params.cam_pos,
                    display |-> FALSE]
       IN \/ tfp' = [tfp EXCEPT !.pc = "clean",
                                !.started = Append(tfp.started, call)]
          \/ tfp' = [tfp EXCEPT !.pc = "done",
                                !.started = Append(tfp.started, call),
                                !.outcome = Raised("train")]
    /\ UNCHANGED <<objVars, fsVars, runVars, crop, seg>>

\* lines 170-173: the intermediate directory removed unless kept, and the
\* volume returned
FromParamsReturn ==
    /\ tfp.pc = "clean"
    /\ IF tfp.params.keep_intermediates
       THEN UNCHANGED fsVars
       ELSE /\ dirs' = {d \in dirs : ~IsUnder(d, tfp.new_dir_path)}
            /\ bfiles' = {f \in bfiles : ~IsUnder(f.dir, tfp.new_dir_path)}
            /\ rfiles' = {f \in rfiles : ~IsUnder(f.dir, tfp.new_dir_path)}
            /\ mfiles' = {f \in mfiles : ~IsUnder(f.dir, tfp.new_dir_path)}
            /\ pfiles' = {f \in pfiles : ~IsUnder(f.dir, tfp.new_dir_path)}
    /\ tfp' = [tfp EXCEPT !.pc = "done",
                          !.outcome = Returned([fused_by |-> tfp.started[1]])]
    /\ UNCHANGED <<objVars, runVars, crop, seg>>

----------------------------------------------------------------------------
(* The object after FUSE_illu(...), an existing save directory, one pair *)

Object(n) ==
    /\ train_params \in
         [require_segmentation : BOOLEAN,
          window_size : {<<DefaultWinZ, DefaultWinXY>>}]
    /\ GFr_default = <<DefaultGFrZ, DefaultGFrXY>>
    /\ data \in Pairs
    /\ dirs = Present
    /\ bfiles = {[dir |-> Given, name |-> fb_xy_literal,
                  raster |-> GivenRaster(Len(data.top)), by |-> 0],
                 [dir |-> GivenDeep, name |-> fb_xy_literal,
                  raster |-> GivenRaster(Len(data.top) + 1), by |-> 0]}
    /\ rfiles = {}
    /\ mfiles = {}
    /\ pfiles = {}
    /\ limit = n
    /\ run = 0
    /\ trains = 0
    /\ pc = "idle"
    /\ args = Args("none", None, "", None, FALSE, FALSE, FALSE, "front")
    /\ loc = NoLocals
    /\ fr = NoCall
    /\ outcome = Running
    /\ calls = << >>

\* the object, and no call of a stage on its own
Session(n) == Object(n) /\ crop = NoCrop /\ seg = NoSeg /\ tfp = NoParams

\* the object at rest: no run of the entry points is to come
AtRest ==
    /\ Object(0)
    /\ train_params.require_segmentation
    /\ data = [top |-> Volume(1, 0), bottom |-> Volume(1, 100),
               lateral |-> FALSE]

Init == Session(MaxRuns)

\* a session of a single run
InitOneRun == Session(1)

Next ==
    \/ TrainBegin
    \/ TrainPrepare
    \/ TrainEstimate
    \/ TrainWrite
    \/ TrainRead
    \/ TrainCall
    \/ TrainFinish
    \/ TwbBegin
    \/ TwbRead
    \/ TwbCall
    \/ TwbFinish
    \/ DirectCall
    \/ DirectReturn
    \/ FusionBegin
    \/ FusionStep
    \/ FusionReturn

\* a session of MaxRuns runs
Spec == Init /\ [][Next]_vars

\* a session of one run
SpecOneRun == InitOneRun /\ [][Next]_vars

\* a call of localizingSample on its own
InitLocalize == AtRest /\ crop \in CropCalls /\ seg = NoSeg /\ tfp = NoParams

NextLocalize == LocalizeView \/ LocalizeSummary

SpecLocalize == InitLocalize /\ [][NextLocalize]_vars

\* a call of segmentSample on its own
InitSegment == AtRest /\ crop = NoCrop /\ seg \in SegCalls /\ tfp = NoParams

NextSegment == SegBegin \/ SegStep \/ SegReturn

SpecSegment == InitSegment /\ [][NextSegment]_vars

\* a call of train_from_params on its own
InitFromParams ==
    /\ AtRest
    /\ crop = NoCrop
    /\ seg = NoSeg
    /\ tfp \in {[NoParams EXCEPT !.pc = "check", !.params = p] :
                    p \in ParamsOnOffer}

NextFromParams ==
    \/ FromParamsCheck
    \/ FromParamsMakedirs
    \/ FromParamsTrain
    \/ FromParamsReturn

SpecFromParams == InitFromParams /\ [][NextFromParams]_vars

----------------------------------------------------------------------------
(* Properties *)

\* the files a set holds that the current run wrote
ByRun(files) == {f \in files : f.by = run}

\* a run of the class has ended
Ended(entries) == pc = "done" /\ args.entry \in entries

\* C1: every value of a boundary raster that train has written is a row
\* index of the volume: 0 <= B(z, x) < M, M the row count of the input
C1_PersistedBelowM ==
    \A f \in bfiles :
        f.by # 0 =>
            \A z \in 1..Len(f.raster) : \A x \in 1..Len(f.raster[z]) :
                0 <= f.raster[z][x] /\ f.raster[z][x] < Rows

\* C2: every depth index fusionResult reads for a neighbourhood window lies
\* in 0..s-1, s the depth of the volume: none is >= s, none is negative
C2_WindowInRange ==
    \A i \in fr.read : 0 <= i /\ i <= Len(fr.topVol) - 1

\* a completed call is one the claim on repetition speaks of: fusionResult
\* with GFr left at its default, or the call train_with_boundary makes
Repeatable(c) == c.byDefault \/ c.caller = "train_with_boundary"

\* C3: two completed calls of fusionResult in one process, on the same two
\* volumes and the same boundary, both with the default window argument or
\* both made by train_with_boundary, use the same window sizes and return
\* the same fused volume
C3_SecondCallSame ==
    \A i \in 1..Len(calls) : \A j \in 1..Len(calls) :
        (/\ i < j
         /\ Repeatable(calls[i]) /\ Repeatable(calls[j])
         /\ calls[i].caller = calls[j].caller
         /\ calls[i].topVol = calls[j].topVol
         /\ calls[i].bottomVol = calls[j].bottomVol
         /\ calls[i].boundary = calls[j].boundary)
        => (calls[i].GFr = calls[j].GFr /\ calls[i].recon = calls[j].recon)

\* the fused volume of a run of train with cam_pos "front" on the pair
\* (top, bottom) for which the estimator arrives at the surface computed
FrontTrain(top, bottom, computed) ==
    Result(data.lateral,
           FusedVolume(Ingested(data.lateral, top),
                       Ingested(data.lateral, bottom),
                       ReadBoundary("front",
                                    WrittenBoundary("front", computed)),
                       train_params.window_size))

\* the fused volume of a run of train_with_boundary with cam_pos "front" on
\* the pair (top, bottom) and the boundary raster given
FrontTwb(top, bottom, raster) ==
    Result(data.lateral,
           FusedVolume(Ingested(data.lateral, top),
                       Ingested(data.lateral, bottom),
                       ReadBoundary("front", raster),
                       train_params.window_size))

\* the blender is at work for the caller named
Blending(caller) ==
    pc \in {"f_begin", "f_loop", "t_finish", "w_finish"} /\ fr.caller = caller

\* C4: the result train returns with cam_pos "back" is the depth reversal
\* of the result it returns with "front" on the depth-reversed volumes, and
\* so is the result of train_with_boundary, the boundary raster reversed
\* along with the volumes; in train the surface the blender is driven by is
\* the surface computed, depth for depth (it was flipped twice or not at all)
C4_BackIsFrontOnReversed ==
    /\ (Ended({"train"}) /\ outcome.kind = "returned") =>
          outcome.result =
              FlipIf(args.cam_pos,
                     FrontTrain(FlipIf(args.cam_pos, data.top),
                                FlipIf(args.cam_pos, data.bottom),
                                loc.computed))
    /\ (Ended({"train_with_boundary"}) /\ outcome.kind = "returned") =>
          \A f \in FileAt(bfiles, args.boundary_path, fb_xy_literal) :
              outcome.result =
                  FlipIf(args.cam_pos,
                         FrontTwb(FlipIf(args.cam_pos, data.top),
                                  FlipIf(args.cam_pos, data.bottom),
                                  FlipIf(args.cam_pos, f.raster)))
    /\ Blending("train") => fr.boundary = AsFloat32(loc.computed)

\* a run with cam_pos "back" has returned a fused volume that is not its own
\* depth reversal, from a boundary that varies with depth
C4_Witness ==
    /\ Ended({"train", "train_with_boundary"})
    /\ outcome.kind = "returned"
    /\ args.cam_pos = "back"
    /\ outcome.result # Rev(outcome.result)
    /\ fr.boundary # Rev(fr.boundary)

\* C5: the surface the blender is driven by in train is the raster this run
\* wrote, read back and converted to float, and its values are the values
\* computed before the write: the round trip through the raster loses nothing
C5_RoundTripExact ==
    Blending("train") =>
        /\ \E f \in FileAt(bfiles, Leaf(args), fb_xy(train_params)) :
              /\ f.by = run
              /\ f.raster = FlipIf(args.cam_pos, loc.computed)
              /\ fr.boundary = ReadBoundary(args.cam_pos, f.raster)
        /\ fr.boundary = loc.computed

\* the blender is at work in a run of train with cam_pos "back" on a surface
\* that varies with depth and reaches the upper end of the clipped range
C5_Witness ==
    /\ Blending("train")
    /\ args.cam_pos = "back"
    /\ fr.boundary # Rev(fr.boundary)
    /\ \E z \in 1..Len(fr.boundary) : fr.boundary[z][1] = Rows

\* C6: when a run of train has ended, by returning or by an exception, this
\* run has written the boundary file exactly if it has written the result
\* volume
C6_BothOrNeither ==
    Ended({"train"}) =>
        ((\E f \in bfiles : f.by = run) <=> (\E f \in rfiles : f.by = run))

\* C7: a run of train or of train_with_boundary that is given an incomplete
\* pair ends in an error raised to the caller, runs no stage and leaves
\* behind no file and no directory
C7_IncompletePairFatal ==
    (Ended({"train", "train_with_boundary"}) /\ ~PairGiven(args)) =>
        /\ outcome.kind = "raised"
        /\ loc.stages = << >>
        /\ ByRun(bfiles) = {} /\ ByRun(rfiles) = {}
        /\ ByRun(mfiles) = {} /\ ByRun(pfiles) = {}
        /\ dirs = {Root, Given, GivenDeep}

\* the two volumes differ in depth, or the boundary raster a run of
\* train_with_boundary is pointed at differs in depth from the primary volume
Incompatible ==
    \/ Len(data.top) # Len(data.bottom)
    \/ /\ args.entry = "train_with_boundary"
       /\ \E f \in FileAt(bfiles, args.boundary_path, fb_xy_literal) :
             Len(f.raster) # Len(data.top)

\* C8: a run of train or of train_with_boundary on a complete pair of
\* volumes of different depth, or on a boundary raster of another depth than
\* the volumes, ends in an error and writes no result volume
C8_IncompatibleAborts ==
    (/\ Ended({"train", "train_with_boundary"})
     /\ PairGiven(args)
     /\ args.save_path \in dirs
     /\ Incompatible)
    => (outcome.kind = "raised" /\ ByRun(rfiles) = {})

\* C9: a run of train_with_boundary without separate results, pointed at the
\* directory an earlier run of train on the same object, pair and camera
\* position wrote its boundary file to, has its blender driven by the
\* boundary train's blender was driven by and obtains the same fused volume
C9_TrainFileIsRead ==
    (/\ Ended({"train_with_boundary"})
     /\ ~args.save_separate_results
     /\ Len(calls) >= 1
     /\ calls[1].caller = "train"
     /\ calls[1].run < run
     /\ calls[1].cam_pos = args.cam_pos
     /\ \E f \in bfiles : f.by = calls[1].run /\ f.dir = args.boundary_path)
    => \E j \in 2..Len(calls) :
          /\ calls[j].run = run
          /\ calls[j].boundary = calls[1].boundary
          /\ calls[j].recon = calls[1].recon

\* the mask artifacts at a directory
MasksAt(dir) == {f \in mfiles : f.dir = dir}

\* C10: in a run of train or of train_with_boundary with separate results the
\* blender writes to the directory the run emptied and created, which
\* exists, and when the run has returned that directory holds one mask of
\* this run for each depth index and no other; a run without separate
\* results writes no mask
C10_OneMaskPerDepth ==
    /\ (Blending("train") \/ Blending("train_with_boundary")) =>
          (fr.save_separate_results =>
              (fr.path = loc.made /\ (pc = "f_loop" => fr.path \in dirs)))
    /\ (/\ Ended({"train", "train_with_boundary"})
        /\ outcome.kind = "returned"
        /\ args.save_separate_results)
       => /\ {f.name : f \in ByRun(MasksAt(fr.path))}
               = 0..(Len(fr.topVol) - 1)
          /\ MasksAt(fr.path) = ByRun(MasksAt(fr.path))
    /\ (Ended({"train", "train_with_boundary"}) /\ ~args.save_separate_results)
       => ByRun(mfiles) = {}

AllZero(boundary) ==
    \A z \in 1..Len(boundary) : \A x \in 1..Len(boundary[z]) :
        boundary[z][x] = 0

\* C12: in a completed call of fusionResult on a boundary that is zero
\* everywhere, the selection handed to fusion_perslice for every output slice
\* gives no row to the primary volume and every row, row 0 included, to the
\* secondary volume
C12_ZeroBoundaryAllSecondary ==
    \A i \in 1..Len(calls) :
        AllZero(calls[i].boundary) =>
            \A z \in 1..Len(calls[i].recon) :
                LET mask == calls[i].recon[z].mask
                IN mask # << >> =>
                     \A k \in 1..Len(mask[1]) : \A x \in 1..Len(mask[1][k]) :
                        /\ mask[1][k][x] = {}
                        /\ mask[2][k][x] = 0..(Rows - 1)

\* C16: a completed call of fusionResult, whatever the depth and the depth
\* window size, has written the output slices of depth index 0, 1, ..., s-1
\* in this order, each once, has left no slice at its initial zero, and has
\* used for slice d a window with d at its centre
C16_EverySliceOnceInOrder ==
    \A i \in 1..Len(calls) :
        LET c == calls[i]
            s == Len(c.topVol)
            h == FloorDiv(c.GFr[1], 2)
        IN /\ c.written = [d \in 1..s |-> d - 1]
           /\ \A z \in 1..s : c.recon[z].x # << >>
           /\ \A d \in 1..Len(c.windows) :
                 /\ Len(c.windows[d]) = 2 * h + 1
                 /\ c.windows[d][h + 1] = c.written[d]

\* the depth index j reflected about the edge of 0..s-1 it lies beyond
Mirror(j, s) ==
    IF j < 0 THEN 0 - j ELSE IF j > s - 1 THEN 2 * (s - 1) - j ELSE j

\* C17: in a completed call of fusionResult with an odd depth window
\* w = 2h+1 on a volume of depth s >= w, the window of output slice d holds
\* at offset k in -h..h the index d + k reflected about the edge it crosses,
\* at the bottom edge as at the top edge
C17_MirroredAtBothEdges ==
    \A i \in 1..Len(calls) :
        LET c == calls[i]
            s == Len(c.topVol)
            w == c.GFr[1]
            h == FloorDiv(w, 2)
        IN (w % 2 = 1 /\ s >= w) =>
              \A d \in 1..Len(c.windows) : \A k \in (0 - h)..h :
                  c.windows[d][k + h + 1] = Mirror(c.written[d] + k, s)

\* C20: in every window the blender has used, the row r of the slice at
\* window position k and lateral position x is selected for the primary
\* volume iff r <= B and for the secondary volume iff r > B, B the boundary
\* at that depth and lateral position: each row is selected for exactly one
C20_MasksComplementary ==
    \A j \in 1..Len(fr.written) :
        LET mask == fr.recon[fr.written[j] + 1].mask
            ls == fr.windows[j]
        IN \A k \in 1..Len(ls) : \A x \in 1..NCols : \A r \in 0..(Rows - 1) :
              LET B == At(fr.boundary, ls[k])[x]
              IN /\ (r \in mask[1][k][x]) <=> (r <= B)
                 /\ (r \in mask[2][k][x]) <=> (r > B)
                 /\ (r \in mask[1][k][x]) <=> (r \notin mask[2][k][x])

\* the blender has used a window that crosses an edge of the volume, on a
\* boundary that varies with depth and gives rows to either source
C20_Witness ==
    /\ Len(fr.written) >= 1
    /\ fr.boundary # Rev(fr.boundary)
    /\ Len(fr.windows[1]) > 1
    /\ \E k \in 1..Len(fr.windows[1]) :
          LET mask == fr.recon[fr.written[1] + 1].mask
          IN mask[1][k][1] # {} /\ mask[2][k][1] # {}

\* C15: a run of train in which the down-sampled crop of a volume has no
\* nonzero voxel ends in an error raised out of measureSample: this run
\* writes no statistics file for such a volume, runs no stage after
\* measureSample, and writes neither a boundary file nor a result volume
C15_EmptyPopulationFatal ==
    (Ended({"train"}) /\ loc.dark # {}) =>
        /\ outcome.kind = "raised"
        /\ loc.stages = <<"localizingSample", "measureSample">>
        /\ \A v \in loc.dark :
              \A f \in ByRun(pfiles) :
                 ~(f.name = "info.npy" /\ f.dir = InfoDir(args, v))
        /\ ByRun(bfiles) = {}
        /\ ByRun(rfiles) = {}

\* a run of train has ended in measureSample of the secondary volume, the
\* statistics of the primary volume written
C15_Witness ==
    /\ Ended({"train"})
    /\ loc.dark = {"bottom"}
    /\ outcome.kind = "raised"
    /\ \E f \in ByRun(pfiles) :
          f.name = "info.npy" /\ f.dir = InfoDir(args, "top")

\* the last index of an index array
Last(d) == d[Len(d)]

\* C13: when both projections keep foreground, the region localizingSample
\* returns is the union of the two boxes (the least start and the greatest
\* end on each axis), each box the foreground bounding box widened by the
\* margin and clamped to the image; 0 <= start < end <= extent on both
\* axes, and every foreground row and column of both volumes lies in it
C13_CropIsUnionWithinImage ==
    (crop.pc = "done" /\ crop.outcome.kind = "returned") =>
        LET r == crop.outcome.result
            x == crop.d2
            y == crop.d1
        IN /\ r.startX = Min(Max(0, x[1][1] - Margin),
                             Max(0, x[2][1] - Margin))
           /\ r.endX = Max(Min(crop.m, Last(x[1]) + Margin),
                           Min(crop.m, Last(x[2]) + Margin))
           /\ r.startY = Min(Max(0, y[1][1] - Margin),
                             Max(0, y[2][1] - Margin))
           /\ r.endY = Max(Min(crop.n, Last(y[1]) + Margin),
                           Min(crop.n, Last(y[2]) + Margin))
           /\ 0 <= r.startX /\ r.startX < r.endX /\ r.endX <= crop.m
           /\ 0 <= r.startY /\ r.startY < r.endY /\ r.endY <= crop.n
           /\ \A v \in 1..2 :
                /\ r.startX <= x[v][1] /\ Last(x[v]) < r.endX
                /\ r.startY <= y[v][1] /\ Last(y[v]) < r.endY

\* C13 happens: a region that is neither of the two boxes, clamped at the
\* start of the rows and at the end of the columns, not at their start
C13_Witness ==
    /\ crop.pc = "done"
    /\ crop.outcome.kind = "returned"
    /\ crop.outcome.result # crop.cropInfo[1]
    /\ crop.outcome.result # crop.cropInfo[2]
    /\ crop.outcome.result.startX = 0
    /\ crop.d2[1][1] > 0
    /\ crop.outcome.result.startY > 0
    /\ crop.outcome.result.endY = crop.n
    /\ Last(crop.d1[1]) + Margin < crop.n

\* a call of segmentSample has ended
SegEnded == seg.pc = "done"

\* C14: segmentSample never raises and returns a mask, for every depth
\* s >= 1; where peak detection finds no peak, on the global curve or on a
\* column, the crossover is s // 2, and every crossover is at most s // 2
C14_NeverRaisesMidpointFallback ==
    SegEnded =>
        /\ seg.outcome.kind = "returned"
        /\ seg.c_all <= FloorDiv(seg.s, 2)
        /\ seg.l_all = << >> => seg.c_all = FloorDiv(seg.s, 2)
        /\ \A x \in 1..NCols :
             /\ seg.c[x] <= FloorDiv(seg.s, 2)
             /\ seg.peaks[x] = << >> => seg.c[x] = FloorDiv(seg.s, 2)

\* a fraction <<numerator, denominator>> is the decimal tenths / 10
IsTenths(q, tenths) == q[1] * 10 = tenths * q[2]

\* C18: with global crossover c and depth s, a slice i < c is segmented
\* with the averaged global thresholds; a slice i >= c with element i - c
\* of the s - c exponents spaced linearly from 0.5 to 0.1, the sequence
\* holding s - i elements when the slice is reached (never none), the
\* slice at the crossover using 0.5 and the last slice 0.1
C18_ExponentSchedule ==
    \A j \in 1..Len(seg.used) :
        LET u == seg.used[j]
            i == j - 1
            c == seg.c_all
            s == seg.s
        IN /\ i < c =>
                /\ u.exponent = None
                /\ u.th_slice = Mean(<<"th_top", "th_bottom">>)
                /\ u.th_F_slice = Mean(<<"th_top_F", "th_bottom_F">>)
           /\ i >= c =>
                /\ u.exponent = LinSpace(s - c)[i - c + 1]
                /\ Len(u.t_read) = s - i
                /\ Len(u.t_read) > 0
                /\ u.th_slice = Mean(<<Otsu("topVol", i, u.exponent),
                                       Otsu("bottomVol", i, u.exponent)>>)
                /\ i = c => IsTenths(u.exponent, 5)
                /\ i = s - 1 => IsTenths(u.exponent, 1)

\* C18 happens: a call has returned whose crossover came from a peak, with
\* slices on both sides of it
C18_Witness ==
    /\ SegEnded
    /\ seg.outcome.kind = "returned"
    /\ seg.l_all # << >>
    /\ 0 < seg.c_all
    /\ seg.c_all < FloorDiv(seg.s, 2)
    /\ Len(seg.used) = seg.s
    /\ IsTenths(seg.used[seg.s].exponent, 1)

\* C19: what a slice is segmented with depends on the slice and on values
\* fixed before the loop only: whatever a slice reads of the variables
\* that outlive an iteration (the exponents t, the feature thresholds
\* th_top_F and th_bottom_F) is what they held before the first slice
C19_NothingCarriedBetweenSlices ==
    \A j \in 1..Len(seg.used) :
        /\ seg.used[j].t_read # None => seg.used[j].t_read = seg.t0
        /\ seg.used[j].th_F_read # None => seg.used[j].th_F_read = seg.th_F0

\* the entry points of the class that blend
ClassCallers == {"train", "train_with_boundary"}

\* the boundary file a run of the class reads its surface from
BoundaryRead ==
    IF args.entry = "train"
    THEN FileAt(bfiles, Leaf(args), fb_xy(train_params))
    ELSE FileAt(bfiles, args.boundary_path, fb_xy_literal)

\* C21: a run of train or train_with_boundary changes neither the
\* training parameters of the object (the window sizes are those it was
\* constructed with) nor the boundary array it read from file, which is
\* still what the file gives while and after the blender runs; all runs of
\* a session blend with the same window sizes
C21_ParametersAndBoundaryKept ==
    /\ [](/\ train_params.window_size = <<DefaultWinZ, DefaultWinXY>>
          /\ (/\ args.entry \in ClassCallers
              /\ pc \in {"f_begin", "f_loop", "t_finish", "w_finish"})
             => /\ fr.boundary = loc.boundaryE
                /\ \E f \in BoundaryRead :
                     loc.boundaryE = ReadBoundary(args.cam_pos, f.raster)
          /\ \A i \in 1..Len(calls) : \A j \in 1..Len(calls) :
               (calls[i].caller \in ClassCallers
                /\ calls[j].caller \in ClassCallers)
               => calls[i].GFr = calls[j].GFr)
    /\ [][train_params' = train_params]_vars

\* C21 happens: a run of train and then one of train_with_boundary on the
\* same object have both blended and returned
C21_Witness ==
    /\ Len(calls) = 2
    /\ calls[1].caller = "train"
    /\ calls[2].caller = "train_with_boundary"
    /\ calls[1].GFr = <<DefaultWinZ, ReducedXY(DefaultWinXY)>>
    /\ pc = "done"
    /\ outcome.kind = "returned"

\* C22: a run of train or train_with_boundary whose save_path does not
\* exist returns None and has no effect: no directory is made, no
\* parameter, boundary, mask or result file is written, no input is read
\* and no stage is run
C22_MissingSavePathNoEffect ==
    (Ended(ClassCallers) /\ args.save_path \notin Present) =>
        /\ outcome = ReturnedNone
        /\ dirs = Present
        /\ ByRun(pfiles) = {} /\ ByRun(bfiles) = {}
        /\ ByRun(mfiles) = {} /\ ByRun(rfiles) = {}
        /\ loc = NoLocals
        /\ fr = NoCall
        /\ calls = << >>

\* C22 happens: a run of train with both volumes given and a save_path
\* that does not exist has ended
C22_Witness ==
    /\ Ended({"train"})
    /\ args.save_path \notin Present
    /\ PairGiven(args)
    /\ outcome = ReturnedNone

\* the two directions are an opposite pair, in either order
Opposite(d1, d2) == {d1, d2} \in {{"Top", "Bottom"}, {"Left", "Right"}}

\* the dictionary with (image1, direction1) and (image2, direction2)
\* exchanged
Swapped(p) ==
    [p EXCEPT !.image1 = p.image2, !.direction1 = p.direction2,
              !.image2 = p.image1, !.direction2 = p.direction1]

\* the argument of train a direction names
SideOf(direction) ==
    CASE direction = "Top" -> "top_illu_data"
      [] direction = "Bottom" -> "bottom_illu_data"
      [] direction = "Left" -> "left_illu_data"
      [] direction = "Right" -> "right_illu_data"
      [] OTHER -> "none"

\* C23: train_from_params raises ValueError when the method is not
\* "illumination", the amount is not 2 or the directions are not an
\* opposite pair, and then no directory has been made and no run started;
\* for an opposite pair in either order each image is the data of the side
\* its own direction names, the other sides have none, the run of train is
\* started with these in the directory made, and the dictionary with the
\* two (image, direction) exchanged gives every side the same data
C23_FromParamsChecksAndSides ==
    LET p == tfp.params
        valid == /\ p.method = "illumination"
                 /\ p.amount = 2
                 /\ Opposite(p.direction1, p.direction2)
    IN tfp.pc \notin {"idle", "check"} =>
        /\ ~valid =>
             /\ tfp.outcome = Raised("ValueError")
             /\ tfp.made = {} /\ dirs = Present
             /\ tfp.started = << >>
        /\ valid =>
             /\ tfp.outcome # Raised("ValueError")
             /\ tfp.sides[SideOf(p.direction1)] = p.image1
             /\ tfp.sides[SideOf(p.direction2)] = p.image2
             /\ \A side \in DOMAIN NoData :
                  side \notin {SideOf(p.direction1), SideOf(p.direction2)}
                  => tfp.sides[side] = None
             /\ Sides(Swapped(p)) = tfp.sides
             /\ \A k \in 1..Len(tfp.started) :
                  /\ k = 1
                  /\ \A side \in DOMAIN NoData :
                       tfp.started[k][side] = tfp.sides[side]
                  /\ tfp.started[k].save_path = tfp.new_dir_path
                  /\ tfp.new_dir_path \in tfp.made

\* C23 happens: a call with the pair given as (Bottom, Top) has started
\* its run of train and returned
C23_Witness ==
    /\ tfp.pc = "done"
    /\ tfp.outcome.kind = "returned"
    /\ tfp.params.direction1 = "Bottom"
    /\ tfp.params.direction2 = "Top"
    /\ Len(tfp.started) = 1
    /\ tfp.started[1].top_illu_data = tfp.params.image2

============================================================================
